---- MODULE Spec2Model ----
(***************************************************************************)
(* A model of 01-data-modeling-with-postgres/etl.py: the two extractors    *)
(* process_song_file and process_log_file, the batch driver process_data   *)
(* and the entry point main, run against a file system and a database      *)
(* connection with one cursor.                                             *)
(***************************************************************************)
EXTENDS Integers, Sequences, FiniteSets, TLC

\* ------------------------------------------------------------------ bounds
\* Most *.json entries under data/song_data in the driver runs.
MaxSongFiles == 3
\* Most *.json entries under data/log_data in the driver runs.
MaxLogFiles == 2
\* Most records of the log file in the extractor runs.
MaxRecs == 2

\* ----------------------------------------------------------- Python values
\* One shape for every value a parsed JSON field or an SQL parameter can be:
\* None, float NaN, a number, a string.
None == [t |-> "None", n |-> 0, s |-> ""]
NaN == [t |-> "nan", n |-> 0, s |-> ""]
Num(n) == [t |-> "num", n |-> n, s |-> ""]
Str(s) == [t |-> "str", n |-> 0, s |-> s]

\* The two root directories main passes to process_data.
SongRoot == "data/song_data"
LogRoot == "data/log_data"
Roots == {SongRoot, LogRoot}

\* A file of the tree: its name matches *.json or not, its text parses as
\* line-delimited JSON or not, and the records it parses to.
File(json, wellformed, recs) == [json |-> json, wellformed |-> wellformed, recs |-> recs]

\* An executed statement: the SQL text's name, the file and the record of
\* that file it was built from, and the parameters.
Stmt(kind, file, rec, vals) == [kind |-> kind, file |-> file, rec |-> rec, vals |-> vals]
FileId(root, path) == [root |-> root, path |-> path]

IsInsert(st) == st.kind # "song_select"

\* ------------------------------------------------------- process_song_file
\* (mutant) only the year 0 becomes None.
YearOrNone_ZeroOnly(y) == IF y.t = "num" /\ y.n # 0 THEN y ELSE None

\* lambda y: y if y > 0 else None   (NaN > 0 is False)
YearOrNone(y) == IF y.t = "num" /\ y.n > 0 THEN y ELSE None

\* (mutant) NaN is left in place.
NanToNone_Kept(v) == v

\* replace({nan: None}) on artist_latitude / artist_longitude
NanToNone(v) == IF v = NaN THEN None ELSE v

\* lambda s: s if len(s) > 0 else None   (s is a str)
LocationOrNone(s) == IF s.s # "" THEN s ELSE None

song_data(r) == <<r.song_id, r.title, r.artist_id, YearOrNone(r.year), r.duration>>

artist_data(r) ==
    <<r.artist_id, r.artist_name, LocationOrNone(r.artist_location),
      NanToNone(r.artist_latitude), NanToNone(r.artist_longitude)>>

\* The statements the extractor executes, in order, and the exception that
\* ends it ("none": it returns).  read_json raises ValueError on text that
\* does not parse; a frame without rows has no "year" column (KeyError);
\* len() of a location that is not a str raises TypeError, after the song
\* insert and before the artist insert.
process_song_file(f, fid) ==
    IF ~f.wellformed THEN [stmts |-> <<>>, err |-> "ValueError"]
    ELSE IF f.recs = <<>> THEN [stmts |-> <<>>, err |-> "KeyError"]
    ELSE LET r == f.recs[1]
             s1 == Stmt("song_table_insert", fid, 1, song_data(r))
             s2 == Stmt("artist_table_insert", fid, 1, artist_data(r))
         IN  IF r.artist_location.t # "str"
             THEN [stmts |-> <<s1>>, err |-> "TypeError"]
             ELSE [stmts |-> <<s1, s2>>, err |-> "none"]

\* -------------------------------------------------------- process_log_file
\* (mutant) the page filter is left out: every record is retained.
RECURSIVE NextSongRows_All(_, _)
NextSongRows_All(recs, from) ==
    IF from > Len(recs) THEN <<>> ELSE <<from>> \o NextSongRows_All(recs, from + 1)

\* df[df["page"] == "NextSong"]: the positions of the retained records, in
\* file order.
RECURSIVE NextSongRows(_, _)
NextSongRows(recs, from) ==
    IF from > Len(recs) THEN <<>>
    ELSE IF recs[from].page = Str("NextSong")
         THEN <<from>> \o NextSongRows(recs, from + 1)
         ELSE NextSongRows(recs, from + 1)

\* The time row: the timestamp (the calendar fields pandas derives from it
\* are functions of it and are not represented).
time_data(r) == <<r.ts>>

user_data(r) == <<r.userId, r.firstName, r.lastName, r.gender, r.level>>

\* The rows of one table visible to the cursor.
Table(rows, kind) == SelectSeq(rows, LAMBDA st : st.kind = kind)

\* song_select: the (song_id, artist_id) of every song joined to its artist
\* whose title, artist name and duration equal the parameters; SQL equality
\* never holds for a NULL.
song_select(rows, song, artist, length) ==
    LET songs == Table(rows, "song_table_insert")
        artists == Table(rows, "artist_table_insert")
    IN  { <<songs[a].vals[1], artists[b].vals[1]>> :
            <<a, b>> \in { p \in (1..Len(songs)) \X (1..Len(artists)) :
                /\ songs[p[1]].vals[3] = artists[p[2]].vals[1]
                /\ song # None /\ songs[p[1]].vals[2] = song
                /\ artist # None /\ artists[p[2]].vals[2] = artist
                /\ length # None /\ songs[p[1]].vals[5] = length } }

\* cur.fetchone(): one row of the result, or None (here << >>) if it is empty.
fetchone(result) == IF result = {} THEN { <<>> } ELSE result

\* (mutant) the row is unpacked in the wrong order.
ResolveIds_Swapped(results) ==
    IF results # <<>> THEN [songid |-> results[2], artistid |-> results[1]]
    ELSE [songid |-> None, artistid |-> None]

\* if results: songid, artistid = results / else: None, None
ResolveIds(results) ==
    IF results # <<>> THEN [songid |-> results[1], artistid |-> results[2]]
    ELSE [songid |-> None, artistid |-> None]

songplay_data(r, results) ==
    LET ids == ResolveIds(results)
    IN  <<r.ts, r.userId, r.level, ids.songid, ids.artistid,
          r.sessionId, r.location, r.userAgent>>

\* What the cursor can return for the lookups of the retained records of f:
\* one fetchone result per retained record.
Fetches(f, rows) ==
    IF ~f.wellformed \/ f.recs = <<>> THEN { <<>> }
    ELSE LET df == NextSongRows(f.recs, 1)
         IN  { c \in [1..Len(df) -> UNION { fetchone(song_select(rows, f.recs[df[j]].song,
                                                f.recs[df[j]].artist, f.recs[df[j]].length)) :
                                            j \in 1..Len(df) }] :
                 \A j \in 1..Len(df) :
                     c[j] \in fetchone(song_select(rows, f.recs[df[j]].song,
                                          f.recs[df[j]].artist, f.recs[df[j]].length)) }

RECURSIVE Plays(_, _, _, _, _)
Plays(f, fid, df, fetched, j) ==
    IF j > Len(df) THEN <<>>
    ELSE LET r == f.recs[df[j]]
         IN  << Stmt("song_select", fid, df[j], <<r.song, r.artist, r.length>>),
                Stmt("songplay_table_insert", fid, df[j], songplay_data(r, fetched[j])) >>
             \o Plays(f, fid, df, fetched, j + 1)

\* The statements the extractor executes, in order, and the exception that
\* ends it.  A frame without rows has no "page" column (KeyError).
process_log_file(f, fid, fetched) ==
    IF ~f.wellformed THEN [stmts |-> <<>>, err |-> "ValueError"]
    ELSE IF f.recs = <<>> THEN [stmts |-> <<>>, err |-> "KeyError"]
    ELSE LET df == NextSongRows(f.recs, 1)
             times == [j \in 1..Len(df) |->
                          Stmt("time_table_insert", fid, df[j], time_data(f.recs[df[j]]))]
             users == [j \in 1..Len(df) |->
                          Stmt("user_table_insert", fid, df[j], user_data(f.recs[df[j]]))]
         IN  [stmts |-> times \o users \o Plays(f, fid, df, fetched, 1), err |-> "none"]

\* cur.execute: the k-th statement of the plan raises (k = 0: none does); the
\* statements before it were executed, nothing after it is.
cur_execute(plan, k) ==
    IF k = 0 THEN plan
    ELSE [stmts |-> SubSeq(plan.stmts, 1, k - 1), err |-> "DatabaseError"]

\* ------------------------------------------------------------------ inputs
SongRec(song_id, title, artist_id, year, duration, name, loc, lat, lon) ==
    [song_id |-> Str(song_id), title |-> Str(title), artist_id |-> Str(artist_id),
     year |-> year, duration |-> duration, artist_name |-> Str(name),
     artist_location |-> loc, artist_latitude |-> lat, artist_longitude |-> lon]

\* A log record; the user and session fields go with the timestamp.
LogRec(page, key, ts) ==
    [page |-> Str(page), ts |-> Num(ts),
     userId |-> Str(IF ts = 100 THEN "U1" ELSE "U2"),
     firstName |-> Str(IF ts = 100 THEN "Ann" ELSE "Bob"),
     lastName |-> Str(IF ts = 100 THEN "Lee" ELSE "Ray"),
     gender |-> Str(IF ts = 100 THEN "F" ELSE "M"),
     level |-> Str(IF ts = 100 THEN "free" ELSE "paid"),
     song |-> key[1], artist |-> key[2], length |-> key[3],
     sessionId |-> Num(IF ts = 100 THEN 7 ELSE 8),
     location |-> Str(IF ts = 100 THEN "Oslo" ELSE "Rome"),
     userAgent |-> Str(IF ts = 100 THEN "Mozilla" ELSE "Opera")]

Song1 == SongRec("S1", "T1", "A1", Num(2000), Num(1), "N1", Str("L"), Num(10), Num(20))
Song2 == SongRec("S2", "T2", "A2", Num(0), Num(2), "N2", Str(""), NaN, NaN)
\* Another song and artist with the title, name and duration of Song1.
Song1b == SongRec("S2", "T1", "A2", Num(1999), Num(1), "N1", Str("L"), Num(10), Num(20))
\* artist_location is null in the JSON.
SongNoLoc == SongRec("S3", "T3", "A3", Num(2001), Num(3), "N3", None, NaN, Num(20))

Key1 == <<Str("T1"), Str("N1"), Num(1)>>
Key2 == <<Str("T2"), Str("N2"), Num(2)>>
NoKey == <<None, None, None>>
\* The title of Song1 with another artist, and with another duration.
OtherArtist == <<Str("T1"), Str("N2"), Num(1)>>
OtherLength == <<Str("T1"), Str("N1"), Num(2)>>

SeqsUpTo(S, n) == UNION { [1..k -> S] : k \in 0..n }
Tree(entries) == [exists |-> TRUE, entries |-> entries]
NoTree == [exists |-> FALSE, entries |-> <<>>]

\* The driver runs: a few files of each kind, a missing root, a file that is
\* not *.json, files whose extraction raises.
DriverSongEntries ==
    { File(TRUE, TRUE, <<Song1>>), File(TRUE, TRUE, <<SongNoLoc>>),
      File(FALSE, TRUE, <<Song1>>) }
DriverLogEntries ==
    { File(TRUE, TRUE, <<LogRec("Home", NoKey, 100)>>),
      File(TRUE, TRUE, <<LogRec("NextSong", Key1, 100), LogRec("Home", NoKey, 200)>>),
      File(TRUE, FALSE, <<>>) }
DriverTrees ==
    { t \in [Roots -> {NoTree} \cup { Tree(e) : e \in SeqsUpTo(DriverSongEntries, MaxSongFiles)
                                                \cup SeqsUpTo(DriverLogEntries, MaxLogFiles) }] :
        /\ t[SongRoot].exists => t[SongRoot].entries \in SeqsUpTo(DriverSongEntries, MaxSongFiles)
        /\ t[LogRoot].exists => t[LogRoot].entries \in SeqsUpTo(DriverLogEntries, MaxLogFiles) }

\* The song-extractor runs: one song file of every shape, then one log file.
SongFiles ==
    { File(TRUE, FALSE, <<>>), File(TRUE, TRUE, <<>>) } \cup
    { File(TRUE, TRUE, <<SongRec(id[1], id[2], id[3], Num(year), Num(id[4]), id[5], loc, lat, lon)>>) :
        id \in { <<"S1", "T1", "A1", 1, "N1">>, <<"S2", "T2", "A2", 2, "N2">> },
        year \in { -1, 0, 1, 2000 }, loc \in { Str(""), Str("L"), None },
        lat \in { NaN, Num(10), Num(-10) }, lon \in { NaN, Num(20) } }
SongTrees ==
    { [r \in Roots |-> IF r = SongRoot THEN Tree(<<f>>)
                       ELSE Tree(<<File(TRUE, TRUE, <<LogRec("NextSong", Key1, 100)>>)>>)] :
        f \in SongFiles }

\* The log-extractor runs: two songs in the tables, then one log file of
\* every shape.
LogRecs ==
    { LogRec("NextSong", Key1, 100), LogRec("NextSong", Key1, 200),
      LogRec("NextSong", Key2, 100), LogRec("NextSong", OtherArtist, 200),
      LogRec("NextSong", OtherLength, 100), LogRec("NextSong", NoKey, 200),
      LogRec("Home", Key1, 100), LogRec("Home", NoKey, 200) }
LogFiles == { File(TRUE, FALSE, <<>>) } \cup { File(TRUE, TRUE, recs) : recs \in SeqsUpTo(LogRecs, MaxRecs) }
LogTrees ==
    { [r \in Roots |-> IF r = SongRoot
                       THEN Tree(<<File(TRUE, TRUE, <<Song1>>), File(TRUE, TRUE, <<second>>)>>)
                       ELSE Tree(<<f>>)] :
        second \in { Song2, Song1b }, f \in LogFiles }

\* ------------------------------------------------------------------- state
VARIABLES
    fs,         \* the two directory trees (never written)
    pc,         \* where main is
    call,       \* which process_data call of main is running
    filepath,   \* process_data's filepath
    func,       \* process_data's func
    all_files,  \* process_data's all_files: positions in the tree
    num_files,  \* process_data's num_files
    i,          \* process_data's loop index
    opens,      \* psycopg2.connect calls
    closes,     \* conn.close calls
    pending,    \* rows inserted in the open transaction
    committed,  \* rows made durable by conn.commit
    issued,     \* every statement executed on the cursor, in order
    done,       \* the files whose extractor returned
    trace       \* what happened, in order

vars == <<fs, pc, call, filepath, func, all_files, num_files, i, opens, closes,
          pending, committed, issued, done, trace>>

Ev(ev, root, idx, n, err) == [ev |-> ev, root |-> root, i |-> idx, n |-> n, err |-> err]

Init ==
    /\ fs \in DriverTrees \cup SongTrees \cup LogTrees
    /\ pc = "start"
    /\ call = 0
    /\ filepath = ""
    /\ func = ""
    /\ all_files = <<>>
    /\ num_files = 0
    /\ i = 0
    /\ opens = 0
    /\ closes = 0
    /\ pending = <<>>
    /\ committed = <<>>
    /\ issued = <<>>
    /\ done = {}
    /\ trace = <<>>

\* -------------------------------------------------------------------- main
\* (mutant) main processes the log data first.
Batch_LogFirst(k) ==
    IF k = 1 THEN [filepath |-> LogRoot, func |-> "process_log_file"]
    ELSE [filepath |-> SongRoot, func |-> "process_song_file"]

\* The k-th process_data call of main: its filepath and func.
Batch(k) ==
    IF k = 1 THEN [filepath |-> SongRoot, func |-> "process_song_file"]
    ELSE [filepath |-> LogRoot, func |-> "process_log_file"]

\* conn = psycopg2.connect(...); cur = conn.cursor(); the first process_data call.
Connect ==
    /\ pc = "start"
    /\ opens' = opens + 1
    /\ call' = 1
    /\ filepath' = Batch(1).filepath
    /\ func' = Batch(1).func
    /\ pc' = "discover"
    /\ trace' = Append(trace, Ev("connect", "", 0, 0, ""))
    /\ UNCHANGED <<fs, all_files, num_files, i, closes, pending, committed, issued, done>>

\* os.walk(filepath) with glob("*.json") in each directory: the positions of
\* the matching files, in walk order.  os.walk ignores the error of listing
\* a directory that does not exist and yields nothing.
RECURSIVE JsonFiles(_, _)
JsonFiles(entries, from) ==
    IF from > Len(entries) THEN <<>>
    ELSE IF entries[from].json THEN <<from>> \o JsonFiles(entries, from + 1)
         ELSE JsonFiles(entries, from + 1)

walk(tree) == IF tree.exists THEN JsonFiles(tree.entries, 1) ELSE <<>>

\* (mutant) a root that does not exist is an error.
Discover_Raises ==
    /\ pc = "discover"
    /\ all_files' = walk(fs[filepath])
    /\ num_files' = Len(walk(fs[filepath]))
    /\ i' = 0
    /\ trace' = IF fs[filepath].exists
                THEN Append(trace, Ev("found", filepath, 0, Len(walk(fs[filepath])), ""))
                ELSE Append(trace, Ev("raise", filepath, 0, 0, "FileNotFoundError"))
    /\ pc' = IF fs[filepath].exists THEN "loop" ELSE "raised"
    /\ UNCHANGED <<fs, call, filepath, func, opens, closes, pending, committed, issued, done>>

\* process_data up to its loop: all_files, num_files, the "files found" line.
Discover ==
    /\ pc = "discover"
    /\ all_files' = walk(fs[filepath])
    /\ num_files' = Len(walk(fs[filepath]))
    /\ i' = 0
    /\ trace' = Append(trace, Ev("found", filepath, 0, Len(walk(fs[filepath])), ""))
    /\ pc' = "loop"
    /\ UNCHANGED <<fs, call, filepath, func, opens, closes, pending, committed, issued, done>>

\* (mutant) the exception of func is swallowed and the loop goes on.
AfterCall_Swallow(err) == "commit"

\* An exception raised by func is not caught: it leaves the loop, process_data
\* and main; otherwise the loop goes on to conn.commit().
AfterCall(err) == IF err = "none" THEN "commit" ELSE "raised"

\* func(cur, datafile) for the next file of all_files.
CallFunc ==
    /\ pc = "loop"
    /\ i < num_files
    /\ LET fid == FileId(filepath, all_files[i + 1])
           f == fs[filepath].entries[all_files[i + 1]]
       IN  \E fetched \in (IF func = "process_log_file" THEN Fetches(f, committed \o pending)
                           ELSE { <<>> }) :
             LET plan == IF func = "process_song_file" THEN process_song_file(f, fid)
                         ELSE process_log_file(f, fid, fetched)
             IN  \E k \in 0..Len(plan.stmts) :
                 LET run == cur_execute(plan, k)
                 IN
                 /\ i' = i + 1
                 /\ issued' = issued \o run.stmts
                 /\ pending' = pending \o SelectSeq(run.stmts, IsInsert)
                 /\ done' = IF run.err = "none" THEN done \cup {fid} ELSE done
                 /\ pc' = AfterCall(run.err)
                 /\ trace' = IF run.err = "none"
                             THEN Append(trace, Ev("call", filepath, i + 1, num_files, ""))
                             ELSE trace \o << Ev("call", filepath, i + 1, num_files, ""),
                                              Ev("raise", filepath, i + 1, num_files, run.err) >>
    /\ UNCHANGED <<fs, call, filepath, func, all_files, num_files, opens, closes, committed>>

\* conn.commit()
Commit ==
    /\ pc = "commit"
    /\ committed' = committed \o pending
    /\ pending' = <<>>
    /\ trace' = Append(trace, Ev("commit", filepath, i, num_files, ""))
    /\ pc' = "progress"
    /\ UNCHANGED <<fs, call, filepath, func, all_files, num_files, i, opens, closes, issued, done>>

\* (mutant) enumerate(all_files) counting from 0.
Progress_FromZero ==
    /\ pc = "progress"
    /\ trace' = Append(trace, Ev("progress", filepath, i - 1, num_files, ""))
    /\ pc' = "loop"
    /\ UNCHANGED <<fs, call, filepath, func, all_files, num_files, i, opens, closes,
                   pending, committed, issued, done>>

\* print("{}/{} files processed.".format(i, num_files))
Progress ==
    /\ pc = "progress"
    /\ trace' = Append(trace, Ev("progress", filepath, i, num_files, ""))
    /\ pc' = "loop"
    /\ UNCHANGED <<fs, call, filepath, func, all_files, num_files, i, opens, closes,
                   pending, committed, issued, done>>

\* The loop is over: process_data returns, and main makes its next call or
\* goes on to close.
Return ==
    /\ pc = "loop"
    /\ i = num_files
    /\ call' = call + 1
    /\ filepath' = IF call = 1 THEN Batch(2).filepath ELSE filepath
    /\ func' = IF call = 1 THEN Batch(2).func ELSE func
    /\ pc' = IF call = 1 THEN "discover" ELSE "close"
    /\ UNCHANGED <<fs, all_files, num_files, i, opens, closes, pending, committed, issued,
                   done, trace>>

\* (mutant) main returns without closing the connection.
Close_Left ==
    /\ pc = "close"
    /\ pending' = <<>>
    /\ pc' = "returned"
    /\ UNCHANGED <<fs, call, filepath, func, all_files, num_files, i, opens, closes,
                   committed, issued, done, trace>>

\* cur.close(); conn.close(): what was not committed is discarded.
Close ==
    /\ pc = "close"
    /\ closes' = closes + 1
    /\ pending' = <<>>
    /\ trace' = Append(trace, Ev("close", "", 0, 0, ""))
    /\ pc' = "returned"
    /\ UNCHANGED <<fs, call, filepath, func, all_files, num_files, i, opens, committed,
                   issued, done>>

\* (mutant) the connection commits what is pending when the process ends.
Terminate_Commits ==
    /\ pc \in {"returned", "raised"}
    /\ pc' = IF pc = "returned" THEN "exit0" ELSE "exit1"
    /\ committed' = committed \o pending
    /\ pending' = <<>>
    /\ UNCHANGED <<fs, call, filepath, func, all_files, num_files, i, opens, closes,
                   issued, done, trace>>

\* The process ends: status 0 after main returned, a stack trace and a
\* non-zero status after an exception nothing caught.  The server rolls back
\* the transaction of a connection that goes away.
Terminate ==
    /\ pc \in {"returned", "raised"}
    /\ pc' = IF pc = "returned" THEN "exit0" ELSE "exit1"
    /\ pending' = <<>>
    /\ UNCHANGED <<fs, call, filepath, func, all_files, num_files, i, opens, closes,
                   committed, issued, done, trace>>

Next ==
    \/ Connect
    \/ Discover
    \/ CallFunc
    \/ Commit
    \/ Progress
    \/ Return
    \/ Close
    \/ Terminate

Spec == Init /\ [][Next]_vars

\* ------------------------------------------------------------ the claims
\* The statements of one file in a sequence of statements, and its rows.
Of(stmts, fid) == SelectSeq(stmts, LAMBDA st : st.file = fid)
Inserts(stmts) == SelectSeq(stmts, IsInsert)

\* The files process_data finds under a root, as file ids, in discovery order.
Found(root) == [j \in 1..Len(walk(fs[root])) |-> FileId(root, walk(fs[root])[j])]
Content(fid) == fs[fid.root].entries[fid.path]

Failed == pc \in {"raised", "exit1"}
Last == trace[Len(trace)]
Events(ev, root) == { p \in 1..Len(trace) : trace[p].ev = ev /\ trace[p].root = root }

\* C1: when the extractor raises on file N of the M files of a batch, the
\* rows of files 1..N-1 of the batch are committed, no row of files N..M is,
\* the exception is the last thing that happens, and no statement, call or
\* commit exists for files N+1..M.
C1_DriverFailure ==
    Failed =>
        /\ Last.ev = "raise" /\ Last.root = filepath /\ Last.i = i
        /\ \A j \in 1..num_files :
             LET fid == Found(filepath)[j]
             IN  /\ j < i => /\ fid \in done
                             /\ Of(committed, fid) = Inserts(Of(issued, fid))
                 /\ j >= i => Of(committed, fid) = <<>>
                 /\ j > i => Of(issued, fid) = <<>>
        /\ \A p \in 1..Len(trace) :
             (trace[p].root = filepath /\ trace[p].ev \in {"call", "commit"}) =>
                 trace[p].i <= i /\ (trace[p].ev = "commit" => trace[p].i < i)

\* A run whose second song file of three raised after its song insert: the
\* first file's rows are committed, the second's insert was executed.
C1_Witness ==
    /\ pc = "exit1" /\ filepath = SongRoot /\ i = 2 /\ num_files = 3
    /\ Last.err = "TypeError"
    /\ Len(Of(committed, Found(SongRoot)[1])) = 2
    /\ Len(Of(issued, Found(SongRoot)[2])) = 1

\* The rows a complete extraction of a file inserts: one song and one artist
\* row of a song file, a time, a user and a songplay row per NextSong record
\* of a log file.
Complete(fid, rows) ==
    IF fid.root = SongRoot
    THEN [j \in 1..Len(rows) |-> rows[j].kind] = <<"song_table_insert", "artist_table_insert">>
    ELSE \A kind \in {"time_table_insert", "user_table_insert", "songplay_table_insert"} :
            Len(Table(rows, kind)) =
                Cardinality({ q \in 1..Len(Content(fid).recs) :
                                Content(fid).recs[q].page = Str("NextSong") })

\* C2: in every state, the committed rows of a file are either none or all
\* the rows its extractor inserts; no strict subset of them is ever durable.
C2_PerFileAtomic ==
    \A root \in Roots : \A j \in 1..Len(Found(root)) :
        LET fid == Found(root)[j]
        IN  \/ Of(committed, fid) = <<>>
            \/ /\ fid \in done
               /\ Of(committed, fid) = Inserts(Of(issued, fid))
               /\ Complete(fid, Of(committed, fid))

\* A log file failed after its time inserts and before its songplay inserts,
\* with rows of earlier files committed: none of its rows is.
C2_Witness ==
    /\ pc = "exit1" /\ filepath = LogRoot
    /\ committed # <<>>
    /\ LET fid == Found(LogRoot)[i]
       IN  /\ Table(Of(issued, fid), "time_table_insert") # <<>>
           /\ Table(Of(issued, fid), "songplay_table_insert") = <<>>
           /\ Of(committed, fid) = <<>>

\* C3: the file list and the total are those of the discovery, before any
\* call; every call follows the "files found" line (the first) or the
\* progress line of the file before it, every commit follows the call of its
\* file, every progress line the commit of its file; the progress indices are
\* 1, 2, ... with the one total, never above it; a file whose extractor
\* returned is committed exactly once, any other file never.
C3_Sequence ==
    /\ pc \in {"loop", "commit", "progress", "raised"} =>
           /\ all_files = walk(fs[filepath])
           /\ num_files = Len(all_files)
    /\ \A p \in 1..Len(trace) :
         LET e == trace[p]
         IN  /\ e.ev \in {"call", "commit", "progress"} =>
                   /\ p > 1
                   /\ trace[p - 1].root = e.root
                   /\ e.i \in 1..e.n
                   /\ e.n = Len(walk(fs[e.root]))
             /\ e.ev = "found" => e.n = Len(walk(fs[e.root]))
             /\ e.ev = "call" =>
                   IF e.i = 1 THEN trace[p - 1].ev = "found"
                   ELSE trace[p - 1].ev = "progress" /\ trace[p - 1].i = e.i - 1
             /\ e.ev = "commit" => trace[p - 1].ev = "call" /\ trace[p - 1].i = e.i
             /\ e.ev = "progress" => trace[p - 1].ev = "commit" /\ trace[p - 1].i = e.i
    /\ \A root \in Roots : \A j \in 1..Len(Found(root)) :
         Cardinality({ p \in Events("commit", root) : trace[p].i = j }) =
            IF Found(root)[j] \in done /\ ~(pc = "commit" /\ filepath = root /\ i = j)
            THEN 1 ELSE 0

\* A batch of three files, all processed: the third progress line is out.
C3_Witness ==
    /\ Len(trace) > 0 /\ Last.ev = "progress" /\ Last.i = 3 /\ Last.n = 3
    /\ Cardinality(Events("commit", SongRoot)) = 3

\* The log files whose extractor was called, and those of them whose call
\* was ended by an error of the database driver.
CalledLog ==
    IF filepath = LogRoot /\ pc # "discover" THEN { Found(LogRoot)[j] : j \in 1..i } ELSE {}
DbFailed(fid) ==
    /\ Failed /\ Last.err = "DatabaseError"
    /\ Last.root = fid.root /\ Found(fid.root)[Last.i] = fid

\* The extraction of a log file returned and executed, for each of the k
\* NextSong records of the file, in file order, one time insert and one user
\* insert built from it, then one lookup and one songplay insert with its
\* fields; nothing for any other record; nothing at all if k = 0.
LogFileDone(fid) ==
    LET recs == Content(fid).recs
        stmts == Of(issued, fid)
        Recs(kind) == [j \in 1..Len(Table(stmts, kind)) |-> Table(stmts, kind)[j].rec]
        kept == { q \in 1..Len(recs) : recs[q].page = Str("NextSong") }
    IN  /\ fid \in done
        /\ \A j \in 1..Len(stmts) : stmts[j].rec \in kept
        /\ \A kind \in {"time_table_insert", "user_table_insert", "song_select",
                        "songplay_table_insert"} :
              /\ Len(Table(stmts, kind)) = Cardinality(kept)
              /\ \A a, b \in 1..Len(Recs(kind)) : a < b => Recs(kind)[a] < Recs(kind)[b]
        /\ \A j \in 1..Len(stmts) :
              LET st == stmts[j]
                  r == recs[st.rec]
              IN  /\ st.kind = "time_table_insert" => st.vals[1] = r.ts
                  /\ st.kind = "user_table_insert" =>
                        st.vals = <<r.userId, r.firstName, r.lastName, r.gender, r.level>>
                  /\ st.kind = "song_select" => st.vals = <<r.song, r.artist, r.length>>
                  /\ st.kind = "songplay_table_insert" => st.vals[1] = r.ts
        /\ kept = {} => stmts = <<>>

\* C4 as stated: every log file that parses, whatever the number of its
\* records, is extracted successfully (no statement failing in the database)
\* with exactly k inserts of each kind.
C4_AnyLogFile ==
    \A fid \in CalledLog :
        (Content(fid).wellformed /\ ~DbFailed(fid)) => LogFileDone(fid)

\* C4, amended: the same for every log file that holds at least one record.
C4_NonEmptyLogFile ==
    \A fid \in CalledLog :
        (Content(fid).wellformed /\ Content(fid).recs # <<>> /\ ~DbFailed(fid)) =>
            LogFileDone(fid)

\* A log file of one Home and one NextSong record was extracted: one time,
\* one user and one songplay insert.
C4_Witness ==
    \E fid \in CalledLog :
        /\ fid \in done
        /\ Len(Content(fid).recs) = 2
        /\ Content(fid).recs[1].page = Str("Home")
        /\ Content(fid).recs[2].page = Str("NextSong")
        /\ Len(Of(issued, fid)) = 4

\* The songplay inserts executed so far.
SongPlays == Table(issued, "songplay_table_insert")

\* C5: the song_id and artist_id of every songplay insert are those of one
\* pair the lookup for its record's (song, artist, length) finds among the
\* songs and artists, or both null if it finds none; the other parameters are
\* that record's timestamp, user id, level, session id, location and agent.
C5_Resolution ==
    \A j \in 1..Len(SongPlays) :
        LET st == SongPlays[j]
            r == Content(st.file).recs[st.rec]
            found == song_select(committed, r.song, r.artist, r.length)
        IN  /\ found # {} => <<st.vals[4], st.vals[5]>> \in found
            /\ found = {} => st.vals[4] = None /\ st.vals[5] = None
            /\ <<st.vals[1], st.vals[2], st.vals[3], st.vals[6], st.vals[7], st.vals[8]>>
                 = <<r.ts, r.userId, r.level, r.sessionId, r.location, r.userAgent>>

\* One log file gave a songplay with the ids of a pair and one with nulls.
C5_Witness ==
    /\ Len(SongPlays) = 2
    /\ SongPlays[1].vals[4] = Str("S1") /\ SongPlays[1].vals[5] = Str("A1")
    /\ SongPlays[2].vals[4] = None /\ SongPlays[2].vals[5] = None
    /\ SongPlays[2].vals[1] # SongPlays[1].vals[1]

\* The record a statement of a song file was built from.
SongInserts == Table(issued, "song_table_insert")
ArtistInserts == Table(issued, "artist_table_insert")

\* C6: the year of every song insert is null if the file's year is <= 0 and
\* the file's year if it is > 0; song_id, title, artist_id and duration are
\* the file's.
C6_Year ==
    \A j \in 1..Len(SongInserts) :
        LET st == SongInserts[j]
            r == Content(st.file).recs[1]
        IN  /\ r.year.n <= 0 => st.vals[4] = None
            /\ r.year.n > 0 => st.vals[4] = r.year
            /\ <<st.vals[1], st.vals[2], st.vals[3], st.vals[5]>>
                 = <<r.song_id, r.title, r.artist_id, r.duration>>

\* A song file with a negative year was inserted with a null year.
C6_Witness ==
    \E j \in 1..Len(SongInserts) :
        /\ Content(SongInserts[j].file).recs[1].year.n < 0
        /\ SongInserts[j].vals[4] = None

\* C7: the location of every artist insert is null if the file's location is
\* the empty string and the file's location otherwise; its latitude and
\* longitude are null if the file's are absent and the file's otherwise; a
\* file with year 0, empty location and no coordinates gives a song row with
\* a null year and an artist row with location and coordinates null.
C7_Artist ==
    /\ \A j \in 1..Len(ArtistInserts) :
        LET st == ArtistInserts[j]
            r == Content(st.file).recs[1]
        IN  /\ st.vals[1] = r.artist_id /\ st.vals[2] = r.artist_name
            /\ st.vals[3] = IF r.artist_location = Str("") THEN None ELSE r.artist_location
            /\ st.vals[4] = IF r.artist_latitude \in {NaN, None} THEN None ELSE r.artist_latitude
            /\ st.vals[5] = IF r.artist_longitude \in {NaN, None} THEN None ELSE r.artist_longitude
    /\ \A fid \in done :
        (fid.root = SongRoot /\ Content(fid).recs[1] = Song2) =>
            /\ Of(issued, fid)[1].vals[4] = None
            /\ <<Of(issued, fid)[2].vals[3], Of(issued, fid)[2].vals[4], Of(issued, fid)[2].vals[5]>>
                 = <<None, None, None>>

\* The file with year 0, empty location and no coordinates was extracted.
C7_Witness ==
    \E fid \in done :
        /\ fid.root = SongRoot /\ Content(fid).recs[1] = Song2
        /\ Len(Of(committed, fid)) = 2

\* The events of one root, by kind, and whether its discovery was made.
Discovered(root) == Events("found", root) # {}

\* C8 as stated: no "files found" line is ever emitted for a root that does
\* not exist, and the discovery of such a root ends main with an error.
C8_MissingRootFails ==
    \A root \in Roots :
        ~fs[root].exists =>
            /\ Events("found", root) = {}
            /\ (filepath = root /\ pc # "discover") => Failed

\* C8, amended: the discovery of a root that does not exist finds no file:
\* process_data emits "0 files found", calls no extractor, commits nothing,
\* emits no progress line, raises nothing and returns to main.
C8_MissingRootEmpty ==
    \A root \in Roots :
        ~fs[root].exists =>
            /\ \A p \in Events("found", root) : trace[p].n = 0
            /\ \A ev \in {"call", "commit", "progress", "raise"} : Events(ev, root) = {}
            /\ (filepath = root /\ pc # "discover") =>
                   /\ Discovered(root)
                   /\ all_files = <<>> /\ num_files = 0
                   /\ ~Failed

\* data/song_data does not exist; main went on to the log files, committed
\* their rows and returned.
C8_Witness ==
    /\ ~fs[SongRoot].exists
    /\ pc = "exit0"
    /\ Cardinality(Events("found", SongRoot)) = 1
    /\ committed # <<>>

\* C9: when the extractor is called on a log file, every song file found has
\* been extracted and committed (so the lookups see all their rows), and no
\* song file is extracted after it; once the song batch has failed, nothing
\* is ever done with data/log_data.
C9_SongsBeforeLogs ==
    /\ \A p \in Events("call", LogRoot) :
         /\ \A j \in 1..Len(Found(SongRoot)) :
              /\ \E q \in Events("commit", SongRoot) : q < p /\ trace[q].i = j
              /\ Found(SongRoot)[j] \in done
              /\ Of(committed, Found(SongRoot)[j]) = Inserts(Of(issued, Found(SongRoot)[j]))
              /\ Len(Of(committed, Found(SongRoot)[j])) = 2
         /\ \A q \in Events("call", SongRoot) : q < p
    /\ Events("raise", SongRoot) # {} =>
         /\ \A p \in 1..Len(trace) : trace[p].root # LogRoot
         /\ \A j \in 1..Len(issued) : issued[j].file.root # LogRoot

\* Two song files were committed and a log file's lookup found one of them.
C9_Witness ==
    /\ Cardinality(Events("commit", SongRoot)) >= 2
    /\ Events("call", LogRoot) # {}
    /\ \E j \in 1..Len(SongPlays) : SongPlays[j].vals[4] # None

\* C10 as stated: every run that ends, by returning or by an extractor's
\* exception, has opened the connection once and closed it once.
C10_ClosedInEveryRun ==
    pc \in {"exit0", "exit1"} => opens = 1 /\ closes = 1

\* C10, amended: the connection is opened exactly once, before anything else;
\* a run that completes closes it exactly once, as its last step, after the
\* last commit; a run in which an extractor fails never reaches conn.close().
C10_Lifecycle ==
    /\ opens = (IF pc = "start" THEN 0 ELSE 1)
    /\ trace # <<>> => /\ trace[1].ev = "connect"
                       /\ \A p \in 2..Len(trace) : trace[p].ev # "connect"
    /\ closes = Cardinality({ p \in 1..Len(trace) : trace[p].ev = "close" })
    /\ pc \in {"returned", "exit0"} => closes = 1 /\ Last.ev = "close"
    /\ pc \notin {"returned", "exit0"} => closes = 0

\* A run that committed rows and returned closed its connection.
C10_Witness ==
    /\ pc = "exit0" /\ closes = 1 /\ opens = 1
    /\ committed # <<>>
    /\ Len(trace) > 1 /\ trace[Len(trace) - 1].ev = "progress"

====
